---- MODULE Spec2Model ----
(***************************************************************************)
(* Model of core/pkg/ingress/controller/util.go of the ingress controller: *)
(* the hostname matcher, the class selector, the ownership checker and the *)
(* annotation merger.                                                      *)
(*                                                                         *)
(* A Go string that the code inspects character by character (hostnames,   *)
(* certificate patterns, annotation values used as prefixes) is a sequence *)
(* of one-character strings: "a.b" is <<"a", ".", "b">>.  A Go string that *)
(* the code only compares for equality (class names, map keys) is a TLA+   *)
(* string.                                                                 *)
(***************************************************************************)
EXTENDS Integers, Sequences, FiniteSets, TLC

VARIABLES
    pc,          \* position of the caller: "start", "returned", "panicked", "terminated"
    pattern,     \* matchHostnames: argument pattern
    host,        \* matchHostnames / isHostValid: argument host
    cert,        \* isHostValid: argument cert, [nil, CN]
    hostRes,     \* value returned by matchHostnames / isHostValid
    ing,         \* IsValidClass / isAssignedToSelf: the Ingress, [nil, m] = ing.Annotations
    config,      \* IsValidClass: [IngressClass, DefaultIngressClass]
    classRes,    \* value returned by IsValidClass
    pod,         \* isAssignedToSelf: what k8s.GetPodDetails answers, [ok, name]
    lookups,     \* isAssignedToSelf: number of calls of k8s.GetPodDetails
    selfRes,     \* value returned by isAssignedToSelf
    loc,         \* mergeLocationAnnotations: *loc, the Location
    anns,        \* mergeLocationAnnotations: the map anns
    loc0,        \* *loc on entry of mergeLocationAnnotations
    anns0,       \* anns on entry of mergeLocationAnnotations
    logged       \* mergeLocationAnnotations: glog.Errorf was called

vars == <<pc, pattern, host, cert, hostRes, ing, config, classRes, pod,
          lookups, selfRes, loc, anns, loc0, anns0, logged>>

hostVars  == <<pattern, host, cert, hostRes>>
classVars == <<config, classRes>>
selfVars  == <<pod, lookups, selfRes>>
mergeVars == <<loc, anns, loc0, anns0, logged>>

(***************************************************************************)
(* Bounds of the model.                                                    *)
(***************************************************************************)
MaxLabels == 3      \* labels of a generated hostname or pattern
MaxCN == 2          \* patterns of a generated certificate
MaxNameLen == 2     \* characters of a generated pod name or annotation value
MaxAnns == 3        \* entries of a generated annotation map

(***************************************************************************)
(* Go strings helpers (package strings).                                   *)
(***************************************************************************)
Dot == "."

\* strings.TrimSuffix(s, "."): s without ONE trailing "." if it has one.
TrimSuffixDot(s) ==
    IF Len(s) > 0 /\ s[Len(s)] = Dot THEN SubSeq(s, 1, Len(s) - 1) ELSE s

\* index of the first "." of s at or after i, or 0.
RECURSIVE IndexDot(_, _)
IndexDot(s, i) ==
    IF i > Len(s) THEN 0
    ELSE IF s[i] = Dot THEN i
    ELSE IndexDot(s, i + 1)

\* strings.Split(s, "."): the substrings between the dots; never empty,
\* Split("") is <<"">>.
RECURSIVE Split(_)
Split(s) ==
    LET i == IndexDot(s, 1)
    IN  IF i = 0 THEN <<s>>
        ELSE <<SubSeq(s, 1, i - 1)>> \o Split(SubSeq(s, i + 1, Len(s)))

\* strings.HasPrefix(s, prefix)
HasPrefix(s, prefix) ==
    Len(s) >= Len(prefix) /\ SubSeq(s, 1, Len(prefix)) = prefix

(***************************************************************************)
(* matchHostnames, isHostValid.                                            *)
(***************************************************************************)

\* the loop of matchHostnames from index i (1-based; Go's i is i - 1).
RECURSIVE matchParts(_, _, _)
matchParts(patternParts, hostParts, i) ==
    IF i > Len(patternParts) THEN TRUE
    ELSE IF i = 1 /\ patternParts[i] = <<"*">>
         THEN matchParts(patternParts, hostParts, i + 1)
    ELSE IF patternParts[i] # hostParts[i] THEN FALSE
    ELSE matchParts(patternParts, hostParts, i + 1)

\* mutant: the wildcard is honoured at every label position.
matchHostnamesAnyStar(p, h) ==
    LET hs == Split(TrimSuffixDot(h))
        ps == Split(TrimSuffixDot(p))
    IN  /\ Len(TrimSuffixDot(p)) # 0 /\ Len(TrimSuffixDot(h)) # 0
        /\ Len(ps) = Len(hs)
        /\ \A i \in 1..Len(ps) : ps[i] = <<"*">> \/ ps[i] = hs[i]

matchHostnames(p, h) ==
    LET host1    == TrimSuffixDot(h)
        pattern1 == TrimSuffixDot(p)
    IN  IF Len(pattern1) = 0 \/ Len(host1) = 0 THEN FALSE
        ELSE LET patternParts == Split(pattern1)
                 hostParts    == Split(host1)
             IN  IF Len(patternParts) # Len(hostParts) THEN FALSE
                 ELSE matchParts(patternParts, hostParts, 1)

\* the loop of isHostValid over cert.CN from index i.
RECURSIVE anyCN(_, _, _)
anyCN(cn, h, i) ==
    IF i > Len(cn) THEN FALSE
    ELSE IF matchHostnames(cn[i], h) THEN TRUE
    ELSE anyCN(cn, h, i + 1)

\* mutant: only the first pattern of the certificate is tried.
isHostValidFirstOnly(h, c) ==
    IF c.nil THEN FALSE
    ELSE Len(c.CN) > 0 /\ matchHostnames(c.CN[1], h)

isHostValid(h, c) ==
    IF c.nil THEN FALSE ELSE anyCN(c.CN, h, 1)

(***************************************************************************)
(* Inputs of the hostname matcher.                                         *)
(***************************************************************************)
Labels == { <<>>, <<"a">>, <<"b">>, <<"*">>, <<"*", "a">> }

RECURSIVE Join(_)
Join(ls) ==
    IF Len(ls) = 1 THEN ls[1] ELSE ls[1] \o <<Dot>> \o Join(Tail(ls))

LabelSeqs == UNION { [1..n -> Labels] : n \in 1..MaxLabels }

\* every string of at most MaxLabels dot-separated labels, "" included.
Strings == { Join(ls) : ls \in LabelSeqs }

NilCert == [nil |-> TRUE, CN |-> <<>>]

\* patterns a generated certificate carries: "*.a", "a.b.", "b", "*.a.b", "a.*"
CertPatterns ==
    { <<"*", Dot, "a">>, <<"a", Dot, "b", Dot>>, <<"b">>,
      <<"*", Dot, "a", Dot, "b">>, <<"a", Dot, "*">> }

Certs ==
    {NilCert} \cup
    { [nil |-> FALSE, CN |-> cn] : cn \in UNION { [1..n -> CertPatterns] : n \in 0..MaxCN } }

(***************************************************************************)
(* IsValidClass.                                                           *)
(***************************************************************************)
ingressClassKey == "kubernetes.io/ingress.class"
ingressLoadbalancerAnno == "ingress.alpha.k8s.io/loadbalancer-name"
otherAnno == "example.com/other"

\* parser.GetStringAnnotation(name, ing): the value of the annotation, or ""
\* with the "missing annotations" error when the Ingress does not carry it.
GetStringAnnotation(name, i) ==
    IF i.nil \/ name \notin DOMAIN i.m
    THEN [val |-> "", err |-> "missing"]
    ELSE [val |-> i.m[name], err |-> "nil"]

\* mutant: the default-class test is dropped.
IsValidClassNoDefault(i, c) ==
    LET cc == GetStringAnnotation(ingressClassKey, i).val
    IN  (cc = "" /\ c.IngressClass = "") \/ cc = c.IngressClass

IsValidClass(i, c) ==
    LET currentIngClass == c.IngressClass
        cc == GetStringAnnotation(ingressClassKey, i).val
    IN  IF (cc = "" /\ currentIngClass = "") \/ (currentIngClass = c.DefaultIngressClass)
        THEN TRUE
        ELSE cc = currentIngClass

Classes == {"", "nginx", "haproxy", "other"}

Configs == [IngressClass : Classes, DefaultIngressClass : Classes]

\* partial maps from a subset of keys to values
Maps(keys, vals) == UNION { [d -> vals] : d \in SUBSET keys }

NilIng == [nil |-> TRUE, m |-> <<>>]

ClassIngs ==
    {NilIng} \cup
    { [nil |-> FALSE, m |-> m] :
        m \in { f \in Maps({ingressClassKey, otherAnno}, Classes) :
                   otherAnno \in DOMAIN f => f[otherAnno] = "other" } }

(***************************************************************************)
(* isAssignedToSelf.                                                       *)
(***************************************************************************)

\* Go map index m[k]: the zero value "" for an absent key.
MapIndex(m, k) == IF k \in DOMAIN m THEN m[k] ELSE <<>>

\* mutant: a lookup failure is not fatal, the call returns false.
isAssignedToSelfNoFatal(i, p) ==
    IF i.nil THEN [pc |-> "returned", res |-> FALSE, lookups |-> 0]
    ELSE IF ~p.ok THEN [pc |-> "returned", res |-> FALSE, lookups |-> 1]
    ELSE [pc |-> "returned",
          res |-> HasPrefix(MapIndex(i.m, ingressLoadbalancerAnno), p.name),
          lookups |-> 1]

\* the outcome of isAssignedToSelf: where the caller is afterwards, the value
\* returned (kept FALSE when nothing is returned) and the lookups made.
isAssignedToSelf(i, p) ==
    IF i.nil THEN [pc |-> "returned", res |-> FALSE, lookups |-> 0]
    ELSE IF ~p.ok THEN [pc |-> "terminated", res |-> FALSE, lookups |-> 1]
    ELSE [pc |-> "returned",
          res |-> HasPrefix(MapIndex(i.m, ingressLoadbalancerAnno), p.name),
          lookups |-> 1]

Names == UNION { [1..n -> {"a", "b"}] : n \in 0..MaxNameLen }

\* what k8s.GetPodDetails answers: an error, or the pod's details.
Pods == [ok : BOOLEAN, name : Names]

SelfIngs ==
    {NilIng} \cup
    { [nil |-> FALSE, m |-> m] :
        m \in { f \in Maps({ingressLoadbalancerAnno, otherAnno}, Names) :
                   otherAnno \in DOMAIN f => f[otherAnno] = <<"b">> } }

(***************************************************************************)
(* mergeLocationAnnotations.                                               *)
(*                                                                         *)
(* A value of Go type interface{} is <<kind, v>>: the nil interface, an    *)
(* error, a string or a bool.  A Location is a record of such values, one  *)
(* per field, each of the kind of its field.                               *)
(***************************************************************************)
DeniedKeyName == "Denied"

NilVal == <<"nil", "">>
Kind(v) == v[1]

\* the fields of ingress.Location the model keeps, and the kind of each.
FieldKind == [Denied |-> "error", Rewrite |-> "string", EnableCORS |-> "bool"]
Fields == DOMAIN FieldKind

\* the type assertion anns[DeniedKeyName].(error) succeeds on v.
IsError(v) == Kind(v) = "error"

\* mutant: the comma-ok form, loc.Denied, _ = anns[DeniedKeyName].(error),
\* without the test for the key: an absent key clears the denial reason.
ExtractDeniedAlways(l, a) ==
    IF DeniedKeyName \in DOMAIN a /\ IsError(a[DeniedKeyName])
    THEN [pc |-> "extracted", loc |-> [l EXCEPT !.Denied = a[DeniedKeyName]]]
    ELSE [pc |-> "extracted", loc |-> [l EXCEPT !.Denied = NilVal]]

\* lines 131-133: the denial reason is taken from the map; the type assertion
\* panics on a value that is no error (the nil interface included).
ExtractDenied(l, a) ==
    IF DeniedKeyName \in DOMAIN a
    THEN IF IsError(a[DeniedKeyName])
         THEN [pc |-> "extracted", loc |-> [l EXCEPT !.Denied = a[DeniedKeyName]]]
         ELSE [pc |-> "panicked", loc |-> l]
    ELSE [pc |-> "extracted", loc |-> l]

\* mutant: the key is not deleted.
DeleteKeep(a, k) == a

\* delete(anns, k)
Delete(a, k) == [x \in DOMAIN a \ {k} |-> a[x]]

\* the entry of key k of map a can be merged into the Location: k names a
\* field and the value is of the field's kind.
Fits(a, k) == k \in Fields /\ Kind(a[k]) = FieldKind[k]

\* mutant: the merge only fills fields that hold their zero value, and only
\* with non-zero values; a field that already holds a value is kept.
mergoMapFillOnly(l, a) ==
    [loc |-> [f \in Fields |->
                IF /\ f \in DOMAIN a /\ Fits(a, f)
                   /\ l[f][2] \in {"", "false"} /\ a[f][2] \notin {"", "false"}
                THEN a[f] ELSE l[f]],
     err |-> \E k \in DOMAIN a : ~Fits(a, k)]

\* mergo.Map(loc, anns): every field named by a key of the map whose value
\* fits is overwritten with that value, the other fields are left alone; an
\* entry that does not fit is an error.
mergoMap(l, a) ==
    [loc |-> [f \in Fields |-> IF f \in DOMAIN a /\ Fits(a, f) THEN a[f] ELSE l[f]],
     err |-> \E k \in DOMAIN a : ~Fits(a, k)]

\* mutant: the generic merge is not run.
MergeSkipped(l, a) == [loc |-> l, logged |-> FALSE]

\* lines 135-138: the generic merge, its error only logged.
Merge(l, a) ==
    LET r == mergoMap(l, a)
    IN  [loc |-> r.loc, logged |-> r.err]

(***************************************************************************)
(* Inputs of the merger.                                                   *)
(***************************************************************************)
AnnKeys == {"Denied", "denied", "Rewrite", "EnableCORS", "Bogus"}

\* the nil interface, an error, and strings and bools, zero values included.
AnnValues ==
    { NilVal, <<"error", "e1">>, <<"string", "/x">>, <<"string", "">>,
      <<"bool", "true">>, <<"bool", "false">> }

AnnMaps ==
    UNION { [d -> AnnValues] : d \in { k \in SUBSET AnnKeys : Cardinality(k) <= MaxAnns } }

Locations ==
    [Denied : {NilVal, <<"error", "e0">>},
     Rewrite : {<<"string", "">>, <<"string", "/p">>},
     EnableCORS : {<<"bool", "false">>, <<"bool", "true">>}]

(***************************************************************************)
(* Values of the variables an operation does not use.                      *)
(***************************************************************************)
NoString == <<>>
NoConfig == [IngressClass |-> "", DefaultIngressClass |-> ""]
NoPod == [ok |-> FALSE, name |-> <<>>]
NoLoc == [Denied |-> NilVal, Rewrite |-> <<"string", "">>, EnableCORS |-> <<"bool", "false">>]
NoAnns == <<>>

IdleHost  == pattern = NoString /\ host = NoString /\ cert = NilCert /\ hostRes = FALSE
IdleIng   == ing = NilIng
IdleClass == config = NoConfig /\ classRes = FALSE
IdleSelf  == pod = NoPod /\ lookups = 0 /\ selfRes = FALSE
IdleMerge == loc = NoLoc /\ anns = NoAnns /\ loc0 = NoLoc /\ anns0 = NoAnns /\ logged = FALSE

(***************************************************************************)
(* The hostname matcher called on a pattern and a host.                    *)
(***************************************************************************)
InitMatch ==
    /\ pc = "start"
    /\ pattern \in Strings /\ host \in Strings
    /\ cert = NilCert /\ hostRes = FALSE
    /\ IdleIng /\ IdleClass /\ IdleSelf /\ IdleMerge

CallMatchHostnames ==
    /\ pc = "start"
    /\ hostRes' = matchHostnames(pattern, host)
    /\ pc' = "returned"
    /\ UNCHANGED <<pattern, host, cert, ing, classVars, selfVars, mergeVars>>

NextMatch == CallMatchHostnames

SpecMatch == InitMatch /\ [][NextMatch]_vars

(***************************************************************************)
(* isHostValid called on a host and a certificate.                         *)
(***************************************************************************)
InitCert ==
    /\ pc = "start"
    /\ pattern = NoString /\ host \in Strings
    /\ cert \in Certs /\ hostRes = FALSE
    /\ IdleIng /\ IdleClass /\ IdleSelf /\ IdleMerge

CallIsHostValid ==
    /\ pc = "start"
    /\ hostRes' = isHostValid(host, cert)
    /\ pc' = "returned"
    /\ UNCHANGED <<pattern, host, cert, ing, classVars, selfVars, mergeVars>>

NextCert == CallIsHostValid

SpecCert == InitCert /\ [][NextCert]_vars

(***************************************************************************)
(* IsValidClass called on an Ingress and a configuration.                  *)
(***************************************************************************)
InitClass ==
    /\ pc = "start"
    /\ ing \in ClassIngs /\ config \in Configs /\ classRes = FALSE
    /\ IdleHost /\ IdleSelf /\ IdleMerge

CallIsValidClass ==
    /\ pc = "start"
    /\ classRes' = IsValidClass(ing, config)
    /\ pc' = "returned"
    /\ UNCHANGED <<hostVars, ing, config, selfVars, mergeVars>>

NextClass == CallIsValidClass

SpecClass == InitClass /\ [][NextClass]_vars

(***************************************************************************)
(* isAssignedToSelf called on an Ingress; the pod lookup answers pod.      *)
(***************************************************************************)
InitSelf ==
    /\ pc = "start"
    /\ ing \in SelfIngs /\ pod \in Pods /\ lookups = 0 /\ selfRes = FALSE
    /\ IdleHost /\ IdleClass /\ IdleMerge

CallIsAssignedToSelf ==
    /\ pc = "start"
    /\ LET r == isAssignedToSelf(ing, pod)
       IN  /\ pc' = r.pc
           /\ selfRes' = r.res
           /\ lookups' = r.lookups
    /\ UNCHANGED <<hostVars, ing, classVars, pod, mergeVars>>

NextSelf == CallIsAssignedToSelf

SpecSelf == InitSelf /\ [][NextSelf]_vars

(***************************************************************************)
(* mergeLocationAnnotations called on a Location and an annotation map,    *)
(* statement by statement.                                                 *)
(***************************************************************************)
InitMerge ==
    /\ pc = "start"
    /\ loc \in Locations /\ anns \in AnnMaps
    /\ loc0 = loc /\ anns0 = anns /\ logged = FALSE
    /\ IdleHost /\ IdleIng /\ IdleClass /\ IdleSelf

\* lines 131-133
StepExtractDenied ==
    /\ pc = "start"
    /\ LET r == ExtractDenied(loc, anns)
       IN  pc' = r.pc /\ loc' = r.loc
    /\ UNCHANGED <<hostVars, ing, classVars, selfVars, anns, loc0, anns0, logged>>

\* line 134
StepDeleteDenied ==
    /\ pc = "extracted"
    /\ anns' = Delete(anns, DeniedKeyName)
    /\ pc' = "deleted"
    /\ UNCHANGED <<hostVars, ing, classVars, selfVars, loc, loc0, anns0, logged>>

\* lines 135-138
StepMerge ==
    /\ pc = "deleted"
    /\ LET r == Merge(loc, anns)
       IN  loc' = r.loc /\ logged' = r.logged
    /\ pc' = "returned"
    /\ UNCHANGED <<hostVars, ing, classVars, selfVars, anns, loc0, anns0>>

NextMerge == StepExtractDenied \/ StepDeleteDenied \/ StepMerge

SpecMerge == InitMerge /\ [][NextMerge]_vars

(***************************************************************************)
(* Properties of the hostname matcher.                                     *)
(***************************************************************************)

\* the positions of the dots of s, and its labels read off these positions.
DotPos(s) == { i \in 1..Len(s) : s[i] = Dot }
NumLabels(s) == Cardinality(DotPos(s)) + 1
\* the position of the k-th dot of s; 0 for k = 0, Len(s) + 1 past the last.
NthDot(s, k) ==
    IF k = 0 THEN 0
    ELSE IF k > Cardinality(DotPos(s)) THEN Len(s) + 1
    ELSE CHOOSE i \in DotPos(s) : Cardinality({ j \in DotPos(s) : j < i }) = k - 1
LabelAt(s, k) == SubSeq(s, NthDot(s, k - 1) + 1, NthDot(s, k) - 1)

\* s with its trailing dot, if any, removed.
Stripped(s) ==
    IF s # <<>> /\ s[Len(s)] = Dot THEN [i \in 1..(Len(s) - 1) |-> s[i]] ELSE s

\* the reference rule.
RefMatch(p, h) ==
    LET p1 == Stripped(p)
        h1 == Stripped(h)
    IN  /\ p1 # <<>> /\ h1 # <<>>
        /\ NumLabels(p1) = NumLabels(h1)
        /\ \A i \in 1..NumLabels(p1) :
              \/ LabelAt(p1, i) = LabelAt(h1, i)
              \/ i = 1 /\ LabelAt(p1, i) = <<"*">>

ExampleCom == <<"e", "x", "a", "m", "p", "l", "e", ".", "c", "o", "m">>
StarExampleCom == <<"*", ".">> \o ExampleCom
FooExampleCom == <<"f", "o", "o", ".">> \o ExampleCom
AFooExampleCom == <<"a", ".">> \o FooExampleCom

\* C1: matchHostnames(pattern, host) returns what the reference rule gives:
\* with the trailing dot of each operand removed, true iff both are non-empty,
\* have the same number of labels and agree label by label, a "*" as the
\* first label of the pattern matching any label; and the named examples.
C1_MatchAgreesWithReference ==
    /\ pc = "returned" => hostRes = RefMatch(pattern, host)
    /\ matchHostnames(StarExampleCom, FooExampleCom)
    /\ ~matchHostnames(StarExampleCom, ExampleCom)
    /\ ~matchHostnames(StarExampleCom, AFooExampleCom)
    /\ matchHostnames(<<"a", ".", "b", ".">>, <<"a", ".", "b">>)
    /\ ~matchHostnames(<<"a", ".", "*">>, <<"a", ".", "b">>)

\* "*.a" has matched "b.a".
C1_Witness ==
    /\ pc = "returned"
    /\ pattern = <<"*", ".", "a">> /\ host = <<"b", ".", "a">>
    /\ hostRes = TRUE

\* the permutations of a sequence
PermsOf(q) ==
    { [i \in 1..Len(q) |-> q[f[i]]] :
        f \in { g \in [1..Len(q) -> 1..Len(q)] : \A i, j \in 1..Len(q) : g[i] = g[j] => i = j } }

\* C2: isHostValid returns false for a nil certificate; otherwise true iff
\* some pattern of the certificate matches the host, whatever the order of
\* the patterns; a certificate without patterns is valid for no host.
C2_HostValidIffSomePattern ==
    pc = "returned" =>
        /\ cert.nil => hostRes = FALSE
        /\ ~cert.nil =>
              /\ hostRes = (\E i \in 1..Len(cert.CN) : matchHostnames(cert.CN[i], host))
              /\ \A q \in PermsOf(cert.CN) :
                    isHostValid(host, [nil |-> FALSE, CN |-> q]) = hostRes
              /\ cert.CN = <<>> => hostRes = FALSE

\* a certificate whose second pattern, not its first, matches the host.
C2_Witness ==
    /\ pc = "returned"
    /\ ~cert.nil /\ Len(cert.CN) = 2
    /\ ~matchHostnames(cert.CN[1], host)
    /\ matchHostnames(cert.CN[2], host)
    /\ hostRes = TRUE

(***************************************************************************)
(* Properties of the class selector.                                       *)
(***************************************************************************)

\* the class annotation of the Ingress, "" when it has none.
ClassOf(i) ==
    IF ~i.nil /\ ingressClassKey \in DOMAIN i.m THEN i.m[ingressClassKey] ELSE ""

\* C3: IsValidClass returns true iff the annotation and the configured class
\* are both empty, or the configured class is the default class, or the
\* annotation equals the configured class.
C3_ValidClassRule ==
    pc = "returned" =>
        LET cc == ClassOf(ing)
            cur == config.IngressClass
            def == config.DefaultIngressClass
        IN  /\ classRes = ((cc = "" /\ cur = "") \/ cur = def \/ cc = cur)
            /\ cur = def => classRes = TRUE
            /\ (cc = "nginx" /\ cur = "haproxy" /\ def = "other") => classRes = FALSE

\* the default-class instance has accepted an Ingress pinned to another class.
C3_Witness ==
    /\ pc = "returned"
    /\ config.IngressClass = config.DefaultIngressClass
    /\ ClassOf(ing) # "" /\ ClassOf(ing) # config.IngressClass
    /\ classRes = TRUE

\* C4: an instance running as the default class rejects an Ingress whose
\* class annotation names a different, specific class.
C4_DefaultRejectsPinned ==
    (/\ pc = "returned"
     /\ config.IngressClass = config.DefaultIngressClass
     /\ ClassOf(ing) # "" /\ ClassOf(ing) # config.IngressClass)
    => classRes = FALSE

(***************************************************************************)
(* Properties of the ownership checker.                                    *)
(***************************************************************************)

\* C9: for an Ingress without annotations, a nil map or an empty one, the
\* call returns false and the pod lookup is not made.
C9_NoAnnotationsNoLookup ==
    (pc # "start" /\ (ing.nil \/ DOMAIN ing.m = {}))
    => (pc = "returned" /\ selfRes = FALSE /\ lookups = 0)

\* s starts with p: s is p followed by some suffix of s.
StartsWith(s, p) == \E n \in 0..Len(s) : s = p \o SubSeq(s, n + 1, Len(s))

\* C10: for an Ingress with annotations, a failing pod lookup ends the process
\* and nothing is returned; a successful one makes the call return whether the
\* load-balancer annotation ("" when not set) starts with the pod's name.
C10_FatalOrPrefix ==
    (pc # "start" /\ ~ing.nil /\ DOMAIN ing.m # {}) =>
        LET v == IF ingressLoadbalancerAnno \in DOMAIN ing.m
                 THEN ing.m[ingressLoadbalancerAnno] ELSE <<>>
        IN  /\ ~pod.ok => pc = "terminated"
            /\ pod.ok => (pc = "returned" /\ selfRes = StartsWith(v, pod.name))

\* the lookup failed for an Ingress with annotations: the process has ended.
C10_Witness ==
    /\ pc = "terminated"
    /\ ~ing.nil /\ ingressLoadbalancerAnno \in DOMAIN ing.m
    /\ ~pod.ok /\ lookups = 1

(***************************************************************************)
(* Properties of the annotation merger.                                    *)
(***************************************************************************)

\* C5: after the call, the denial field holds the value the map had under
\* "Denied" on entry, if it had one, and the map has no "Denied" key.
C5_DeniedExtractedAndRemoved ==
    pc = "returned" =>
        /\ DeniedKeyName \in DOMAIN anns0 => loc.Denied = anns0[DeniedKeyName]
        /\ DeniedKeyName \notin DOMAIN anns

\* a call has replaced a denial reason by the one of the map.
C5_Witness ==
    /\ pc = "returned"
    /\ DeniedKeyName \in DOMAIN anns0
    /\ loc0.Denied = <<"error", "e0">>
    /\ loc.Denied = <<"error", "e1">>

\* C6: only the extraction step changes the denial field: without a "Denied"
\* key the field is after the call what it was before; with one, the value
\* the extraction assigned stays through the generic merge, which starts on a
\* map that has no "Denied" key.
C6_DeniedOnlyByExtraction ==
    /\ (pc = "returned" /\ DeniedKeyName \notin DOMAIN anns0) => loc.Denied = loc0.Denied
    /\ (pc \in {"extracted", "deleted", "returned"} /\ DeniedKeyName \in DOMAIN anns0)
          => loc.Denied = anns0[DeniedKeyName]
    /\ pc = "deleted" => DeniedKeyName \notin DOMAIN anns

\* a map with an error under "denied" but no "Denied" key has left a denial
\* reason in place.
C6_Witness ==
    /\ pc = "returned"
    /\ DeniedKeyName \notin DOMAIN anns0
    /\ "denied" \in DOMAIN anns0 /\ anns0["denied"] = <<"error", "e1">>
    /\ loc0.Denied = <<"error", "e0">>
    /\ loc.Denied = <<"error", "e0">>

\* C7 as stated: after the call, every field named by a key of the map other
\* than "Denied" holds the value of the map, whatever the value and whatever
\* the field held before; every field no key names holds what it held before.
C7_EveryNamedFieldHoldsValue ==
    pc = "returned" =>
        /\ \A k \in DOMAIN anns0 \ {DeniedKeyName} :
              k \in Fields => loc[k] = anns0[k]
        /\ \A f \in Fields : f \notin DOMAIN anns0 => loc[f] = loc0[f]

\* C7 as amended: after the call, every field named by a key of the map other
\* than "Denied" whose value is of the field's type holds that value (a zero
\* value included), whatever it held before; an entry whose value is not of
\* the field's type leaves the field as it was; every field no key names
\* holds what it held before.
C7_GenericMergeOverwrites ==
    pc = "returned" =>
        /\ \A k \in (DOMAIN anns0 \ {DeniedKeyName}) \cap Fields :
              /\ Kind(anns0[k]) = FieldKind[k] => loc[k] = anns0[k]
              /\ Kind(anns0[k]) # FieldKind[k] => loc[k] = loc0[k]
        /\ \A f \in Fields : f \notin DOMAIN anns0 => loc[f] = loc0[f]

\* a non-empty rewrite field has been overwritten, the CORS field kept.
C7_Witness ==
    /\ pc = "returned"
    /\ "Rewrite" \in DOMAIN anns0 /\ anns0["Rewrite"] = <<"string", "/x">>
    /\ loc0.Rewrite = <<"string", "/p">>
    /\ loc.Rewrite = <<"string", "/x">>
    /\ "EnableCORS" \notin DOMAIN anns0
    /\ loc.EnableCORS = <<"bool", "true">>

\* C8: the call never aborts: it returns, a failing entry is logged and
\* skipped, every other entry is applied.
C8_NeverAborts ==
    /\ pc # "panicked"
    /\ pc = "returned" =>
          /\ \A k \in DOMAIN anns0 \ {DeniedKeyName} :
                (k \in Fields /\ Kind(anns0[k]) = FieldKind[k]) => loc[k] = anns0[k]
          /\ logged = (\E k \in DOMAIN anns0 \ {DeniedKeyName} :
                          ~(k \in Fields /\ Kind(anns0[k]) = FieldKind[k]))
====
